---- MODULE Spec2Model ----
(***************************************************************************)
(* A model of the brainfuck interpreter of src/src/main.rs: read_file      *)
(* splits the source text into lines, tokenize_lines assembles the lines   *)
(* into opcode_tokens with paired jump addresses, and run_brainfuck        *)
(* executes the tokens against a tape of 32768 byte cells.                 *)
(*                                                                         *)
(* Characters are one-character strings.  A 0-based index i of the Rust    *)
(* vectors is the element i + 1 of the TLA+ sequence.                      *)
(***************************************************************************)
EXTENDS Integers, Sequences, FiniteSets, TLC

VARIABLES
    lines,            \* Vec<String> handed to tokenize_lines (read_file's result)
    strict,           \* main: the --strict flag
    pc,               \* "tokenize" | "run" | "done" | "panic"
    line_num,         \* tokenize_lines: 0-based index of the line being scanned
    char_pos,         \* tokenize_lines: 1-based place of the next character in it
    opcode_tokens,    \* the instruction stream
    scope_open_addrs, \* tokenize_lines: stack of pending '[' indices (0-based)
    inst_ptr,         \* run_brainfuck
    data_ptr,         \* run_brainfuck
    data_cells,       \* run_brainfuck: the tape, see Cell
    stdout,           \* everything written to standard output, in order
    fault,            \* the panic that ended the process, or NoFault
    executed,         \* history: index of the token executed last, -1 before the first
    read_result,      \* history: what term.read_char() returned last, or NoRead
    args,             \* main: the command line behind the program's name
    first_call        \* what an earlier call of tokenize_lines gave, or NoCall

vars == <<lines, strict, pc, line_num, char_pos, opcode_tokens, scope_open_addrs,
          inst_ptr, data_ptr, data_cells, stdout, fault, executed, read_result,
          args, first_call>>

(***************************************************************************)
(* Bounds of the model.                                                    *)
(***************************************************************************)
\* longest source text (in characters, newlines included) drawn exhaustively
MaxSrcLen == 3
\* longest source text over BracketAlphabet drawn exhaustively
MaxBracketLen == 5
\* run_brainfuck's output is cut off once stdout holds this many items
MaxStdout == 6

(***************************************************************************)
(* Option<usize>                                                           *)
(***************************************************************************)
None == << >>
Some(x) == <<x>>
unwrap(o) == o[1]

(***************************************************************************)
(* Token and the tables of tokenize_lines                                  *)
(***************************************************************************)
Token(opcode, jump_addr, line) ==
    [opcode |-> opcode, jump_addr |-> jump_addr, line |-> line]

inst(opcode) == Token(opcode, None, 0)

\* a table that also recognizes 'x'
code_tokens_extra ==
    << inst("<"), inst(">"), inst("+"), inst("-"),
       inst(","), inst("."), inst("["), inst("]"), inst("x") >>

code_tokens ==
    << inst("<"), inst(">"), inst("+"), inst("-"),
       inst(","), inst("."), inst("["), inst("]") >>

comment_tokens_two == <<"#", "/">>

comment_tokens == <<"#", "/", ";">>

\* char::is_whitespace on the characters the model draws
is_whitespace(character) == character \in {" ", "\t"}

\* code_tokens.iter().find(|&c| c.opcode == character): the first match, or None
find_token(character) ==
    LET hits == {i \in 1..Len(code_tokens) : code_tokens[i].opcode = character}
    IN  IF hits = {} THEN None
        ELSE Some(code_tokens[CHOOSE i \in hits : \A j \in hits : i <= j])

contains(seq, x) == \E i \in 1..Len(seq) : seq[i] = x

(***************************************************************************)
(* read_file: str::lines() splits at "\n"; a final empty piece is no line. *)
(***************************************************************************)
RECURSIVE str_lines(_, _, _)
str_lines(text, cur, acc) ==
    IF text = << >> THEN (IF cur = << >> THEN acc ELSE Append(acc, cur))
    ELSE IF Head(text) = "\n" THEN str_lines(Tail(text), << >>, Append(acc, cur))
    ELSE str_lines(Tail(text), Append(cur, Head(text)), acc)

read_file(text) == str_lines(text, << >>, << >>)

(***************************************************************************)
(* The source texts the model draws.                                       *)
(***************************************************************************)
Opcodes == {"<", ">", "+", "-", ",", ".", "[", "]"}
Alphabet == Opcodes \cup {"#", "/", ";", " ", "x", "\n"}

BracketAlphabet == {"[", "]", "+", ";", "\n"}

Texts(n) == UNION {[1..k -> Alphabet] : k \in 0..n}
BracketTexts(n) == UNION {[1..k -> BracketAlphabet] : k \in 0..n}

\* longer programs, drawn beside the exhaustive ones
WalkText == <<"+", "[", "-", ">", "+", "]">>
NestedText == <<"+", "[", "[", "-", "]", "]">>
NestedLinesText == <<"[", "\n", "[", "]", "[", "\n", "]", "]">>
DanglingText == <<"+", "\n", "[", "\n", "[", "]", "\n", ".">>
CommentText ==
    <<"+", "+", "+", " ", "#", " ", "t", "h", "i", "s", " ", "i", "s", " ",
      "i", "g", "n", "o", "r", "e", "d", " ", "+", "+", "+">>
CommentBracketText == <<"[", ";", "]", "\n", "+", "]", "/", "[">>

ExtraTexts ==
    {WalkText, NestedText, NestedLinesText, DanglingText, CommentText,
     CommentBracketText}

SourceTexts == Texts(MaxSrcLen) \cup BracketTexts(MaxBracketLen) \cup ExtraTexts

(***************************************************************************)
(* What term.read_char() can return: Ok(c), c a Unicode scalar value, or   *)
(* an Err.                                                                 *)
(***************************************************************************)
InputChars == {0, 65, 255, 321}
Ok(c) == [ok |-> TRUE, ch |-> c]
Err == [ok |-> FALSE, ch |-> 0]
ReadResults == {Ok(c) : c \in InputChars} \cup {Err}
NoRead == [ok |-> FALSE, ch |-> -1]

(***************************************************************************)
(* The tape: data_cells maps the indices of its non-zero cells to their    *)
(* values; every other cell of [0; 32768] holds 0.                         *)
(***************************************************************************)
data_len == 32768
data_size == data_len - 1

ZeroCells == << >>

Cell(cells, i) == IF i \in DOMAIN cells THEN cells[i] ELSE 0

SetCell(cells, i, v) ==
    [j \in (IF v = 0 THEN DOMAIN cells \ {i} ELSE DOMAIN cells \cup {i}) |->
        IF j = i THEN v ELSE cells[j]]

\* u8 arithmetic
wrapping_add_saturating(v, d) == IF v + d > 255 THEN 255 ELSE v + d

wrapping_add(v, d) == (v + d) % 256

wrapping_sub_unwrapped(v, d) == v - d

wrapping_sub(v, d) == (v - d) % 256

checked_add_wrapping(v, d) == Some((v + d) % 256)

checked_add(v, d) == IF v + d > 255 THEN None ELSE Some(v + d)

\* checked_sub that already fails when the result would be 0
checked_sub_early(v, d) == IF v - d <= 0 THEN None ELSE Some(v - d)

checked_sub(v, d) == IF v - d < 0 THEN None ELSE Some(v - d)

\* `c as u8` of a char: its low eight bits
as_u8(c) == c % 256

\* print!("{}", v as char): the UTF-8 encoding of the scalar value v < 256
utf8(v) ==
    IF v < 128 THEN <<v>>
    ELSE <<192 + (v \div 64), 128 + (v % 64)>>

(***************************************************************************)
(* Standard output and panics                                              *)
(***************************************************************************)
OutByte(b) == [byte |-> b]
UnknownCharacter(line, character) ==
    [warning |-> "Unknown character", line |-> line, character |-> character]
UnknownInstruction(line, opcode) ==
    [warning |-> "Unknown instruction", line |-> line, opcode |-> opcode]

print_char(out, v) ==
    out \o [k \in 1..Len(utf8(v)) |-> OutByte(utf8(v)[k])]

NoFault == [kind |-> "none"]
\* eprintln! of the usage line, then std::process::exit(1)
UsageExit == [kind |-> "usage", exit_code |-> 1]
\* read_to_string(filename).unwrap() on an Err
ReadFileFailed == [kind |-> "read_to_string"]
Panic(kind, line) == [kind |-> kind, line |-> line]
\* assert_eq!(left, right): the message holds the two values and no line
AssertEqFailed(left, right) ==
    [kind |-> "assert_eq", left |-> left, right |-> right]

(***************************************************************************)
(* The command lines the model draws: args[0] is left out.                 *)
(***************************************************************************)
MaxArgs == 3
ArgWords == {"--strict", "file", "other"}
ArgLists == UNION {[1..k -> ArgWords] : k \in 0..MaxArgs}

\* the result of tokenize_lines as a caller sees it
NoCall == [ok |-> FALSE, fault |-> NoFault, tokens |-> << >>]
Returned(tokens) == [ok |-> TRUE, fault |-> NoFault, tokens |-> tokens]
Panicked(f) == [ok |-> FALSE, fault |-> f, tokens |-> << >>]

\* the locals of tokenize_lines as it is entered
tokenize_locals_kept ==
    [opcode_tokens |-> opcode_tokens, scope_open_addrs |-> scope_open_addrs]

tokenize_locals == [opcode_tokens |-> << >>, scope_open_addrs |-> << >>]

(***************************************************************************)
(* main: the file is read, then tokenize_lines is entered with its locals  *)
(* at their initial values.                                                *)
(***************************************************************************)
Init ==
    /\ \E text \in SourceTexts : lines = read_file(text)
    /\ strict \in BOOLEAN
    /\ pc = "tokenize"
    /\ line_num = 0
    /\ char_pos = 1
    /\ opcode_tokens = << >>
    /\ scope_open_addrs = << >>
    /\ inst_ptr = 0
    /\ data_ptr = 0
    /\ data_cells = ZeroCells
    /\ stdout = << >>
    /\ fault = NoFault
    /\ executed = -1
    /\ read_result = NoRead
    /\ args = (IF strict THEN <<"--strict", "file">> ELSE <<"file">>)
    /\ first_call = NoCall

main_vars == <<lines, strict, args, first_call>>
run_vars == <<inst_ptr, data_ptr, data_cells>>
tok_vars == <<line_num, char_pos, opcode_tokens, scope_open_addrs>>

(***************************************************************************)
(* tokenize_lines                                                          *)
(***************************************************************************)
\* vec.push(token) followed by last_mut().line = line
push_token(tokens, token, line) == Append(tokens, [token EXCEPT !.line = line])

\* the '[' arm: push, remember the new token's index
scope_open(tokens, addrs, token, line) ==
    LET pushed == push_token(tokens, token, line)
    IN  [tokens |-> pushed, addrs |-> Append(addrs, Len(pushed) - 1)]

\* pop() returned None: the message of the expect
pop_expect_failed_line0(line_number) == Panic("scope_not_opened", line_number)

pop_expect_failed(line_number) == Panic("scope_not_opened", line_number + 1)

\* scope_close that takes the oldest pending '[' instead of the newest
scope_close_fifo(tokens, addrs, token, line) ==
    LET scope_open_addr == addrs[1]
        pushed == Append(tokens, token)
        close_addr == Len(pushed) - 1
        closed == [pushed EXCEPT ![close_addr + 1].jump_addr = Some(scope_open_addr)]
        paired == [closed EXCEPT ![scope_open_addr + 1].jump_addr = Some(close_addr)]
    IN  [tokens |-> [paired EXCEPT ![close_addr + 1].line = line],
         addrs |-> Tail(addrs)]

\* scope_close without the write to the popped '[' token
scope_close_no_backlink(tokens, addrs, token, line) ==
    LET scope_open_addr == addrs[Len(addrs)]
        pushed == Append(tokens, token)
        close_addr == Len(pushed) - 1
        closed == [pushed EXCEPT ![close_addr + 1].jump_addr = Some(scope_open_addr)]
    IN  [tokens |-> [closed EXCEPT ![close_addr + 1].line = line],
         addrs |-> SubSeq(addrs, 1, Len(addrs) - 1)]

\* the ']' arm after a successful pop of scope_open_addr
scope_close(tokens, addrs, token, line) ==
    LET scope_open_addr == addrs[Len(addrs)]
        pushed == Append(tokens, token)
        close_addr == Len(pushed) - 1
        closed == [pushed EXCEPT ![close_addr + 1].jump_addr = Some(scope_open_addr)]
        paired == [closed EXCEPT ![scope_open_addr + 1].jump_addr = Some(close_addr)]
    IN  [tokens |-> [paired EXCEPT ![close_addr + 1].line = line],
         addrs |-> SubSeq(addrs, 1, Len(addrs) - 1)]

\* one turn of the inner loop: the character at char_pos of the current line
TokenizeChar ==
    /\ pc = "tokenize"
    /\ line_num < Len(lines)
    /\ char_pos <= Len(lines[line_num + 1])
    /\ LET character == lines[line_num + 1][char_pos]
           found_token == find_token(character)
       IN  IF found_token = None
           THEN IF contains(comment_tokens, character)
                THEN \* break: the rest of the line is skipped
                     /\ line_num' = line_num + 1
                     /\ char_pos' = 1
                     /\ UNCHANGED <<opcode_tokens, scope_open_addrs, stdout, pc, fault>>
                ELSE /\ stdout' = IF is_whitespace(character) THEN stdout
                                  ELSE Append(stdout,
                                              UnknownCharacter(line_num + 1, character))
                     /\ char_pos' = char_pos + 1
                     /\ UNCHANGED <<line_num, opcode_tokens, scope_open_addrs, pc, fault>>
           ELSE LET token == unwrap(found_token) IN
                CASE token.opcode = "[" ->
                       LET r == scope_open(opcode_tokens, scope_open_addrs, token,
                                           line_num + 1)
                       IN  /\ opcode_tokens' = r.tokens
                           /\ scope_open_addrs' = r.addrs
                           /\ char_pos' = char_pos + 1
                           /\ UNCHANGED <<line_num, stdout, pc, fault>>
                  [] token.opcode = "]" ->
                       IF scope_open_addrs = << >>
                       THEN \* pop() is None: expect panics
                            /\ pc' = "panic"
                            /\ fault' = pop_expect_failed(line_num)
                            /\ UNCHANGED <<tok_vars, stdout>>
                       ELSE LET r == scope_close(opcode_tokens, scope_open_addrs, token,
                                                 line_num + 1)
                            IN  /\ opcode_tokens' = r.tokens
                                /\ scope_open_addrs' = r.addrs
                                /\ char_pos' = char_pos + 1
                                /\ UNCHANGED <<line_num, stdout, pc, fault>>
                  [] OTHER ->
                       /\ opcode_tokens' = push_token(opcode_tokens, token, line_num + 1)
                       /\ char_pos' = char_pos + 1
                       /\ UNCHANGED <<line_num, scope_open_addrs, stdout, pc, fault>>
    /\ UNCHANGED <<main_vars, run_vars, executed, read_result>>

\* line.chars() is exhausted: the outer loop takes the next line
NextLine ==
    /\ pc = "tokenize"
    /\ line_num < Len(lines)
    /\ char_pos > Len(lines[line_num + 1])
    /\ line_num' = line_num + 1
    /\ char_pos' = 1
    /\ UNCHANGED <<main_vars, pc, opcode_tokens, scope_open_addrs, run_vars,
                   stdout, fault, executed, read_result>>

\* the locals of run_brainfuck as it is entered
run_inst_ptr == 0
run_data_ptr == 0
run_data_cells == ZeroCells

\* the return without the assert_eq
TokenizeReturn_no_assert ==
    /\ pc = "tokenize"
    /\ line_num >= Len(lines)
    /\ pc' = "run"
    /\ inst_ptr' = run_inst_ptr
    /\ data_ptr' = run_data_ptr
    /\ data_cells' = run_data_cells
    /\ UNCHANGED <<main_vars, tok_vars, stdout, fault, executed, read_result>>

\* every line is scanned: the assert_eq, then main calls run_brainfuck
TokenizeReturn ==
    /\ pc = "tokenize"
    /\ line_num >= Len(lines)
    /\ IF Len(scope_open_addrs) # 0
       THEN /\ pc' = "panic"
            /\ fault' = AssertEqFailed(Len(scope_open_addrs), 0)
            /\ UNCHANGED run_vars
       ELSE /\ pc' = "run"
            /\ inst_ptr' = run_inst_ptr
            /\ data_ptr' = run_data_ptr
            /\ data_cells' = run_data_cells
            /\ UNCHANGED fault
    /\ UNCHANGED <<main_vars, tok_vars, stdout, executed, read_result>>

(***************************************************************************)
(* run_brainfuck: one turn of the while loop executes the token at         *)
(* inst_ptr.  Each arm of the match is an action on the run's variables.   *)
(***************************************************************************)
curr_inst == opcode_tokens[inst_ptr + 1]
curr_cell == Cell(data_cells, data_ptr)

Panics(kind) ==
    /\ pc' = "panic"
    /\ fault' = Panic(kind, curr_inst.line)
    /\ UNCHANGED <<run_vars, stdout>>

Continues == UNCHANGED <<pc, fault>>

\* '<'
move_left ==
    IF data_ptr > 0
    THEN /\ data_ptr' = data_ptr - 1
         /\ inst_ptr' = inst_ptr + 1
         /\ Continues /\ UNCHANGED <<data_cells, stdout>>
    ELSE IF strict
    THEN Panics("data_pointer_underflow")
    ELSE /\ data_ptr' = data_size
         /\ inst_ptr' = inst_ptr + 1
         /\ Continues /\ UNCHANGED <<data_cells, stdout>>

\* '>'
move_right ==
    IF data_ptr < data_size
    THEN /\ data_ptr' = data_ptr + 1
         /\ inst_ptr' = inst_ptr + 1
         /\ Continues /\ UNCHANGED <<data_cells, stdout>>
    ELSE IF strict
    THEN Panics("data_pointer_overflow")
    ELSE /\ data_ptr' = 0
         /\ inst_ptr' = inst_ptr + 1
         /\ Continues /\ UNCHANGED <<data_cells, stdout>>

\* '+'
increment ==
    IF strict /\ checked_add(curr_cell, 1) = None
    THEN Panics("data_cell_overflow")
    ELSE /\ data_cells' = SetCell(data_cells, data_ptr,
                                  IF strict THEN unwrap(checked_add(curr_cell, 1))
                                  ELSE wrapping_add(curr_cell, 1))
         /\ inst_ptr' = inst_ptr + 1
         /\ Continues /\ UNCHANGED <<data_ptr, stdout>>

\* '-' without inst_ptr += 1
decrement_no_advance ==
    IF strict /\ checked_sub(curr_cell, 1) = None
    THEN Panics("data_cell_underflow")
    ELSE /\ data_cells' = SetCell(data_cells, data_ptr,
                                  IF strict THEN unwrap(checked_sub(curr_cell, 1))
                                  ELSE wrapping_sub(curr_cell, 1))
         /\ Continues /\ UNCHANGED <<inst_ptr, data_ptr, stdout>>

\* '-'
decrement ==
    IF strict /\ checked_sub(curr_cell, 1) = None
    THEN Panics("data_cell_underflow")
    ELSE /\ data_cells' = SetCell(data_cells, data_ptr,
                                  IF strict THEN unwrap(checked_sub(curr_cell, 1))
                                  ELSE wrapping_sub(curr_cell, 1))
         /\ inst_ptr' = inst_ptr + 1
         /\ Continues /\ UNCHANGED <<data_ptr, stdout>>

\* '.' that clears the cell it has written
output_clearing ==
    /\ Len(stdout) < MaxStdout
    /\ stdout' = print_char(stdout, curr_cell)
    /\ data_cells' = SetCell(data_cells, data_ptr, 0)
    /\ inst_ptr' = inst_ptr + 1
    /\ Continues /\ UNCHANGED data_ptr

\* '.'
output ==
    /\ Len(stdout) < MaxStdout
    /\ stdout' = print_char(stdout, curr_cell)
    /\ inst_ptr' = inst_ptr + 1
    /\ Continues /\ UNCHANGED <<data_ptr, data_cells>>

\* input that takes a failed read for a zero byte
input_eof_as_zero(result) ==
    /\ data_cells' = SetCell(data_cells, data_ptr,
                             IF result.ok THEN as_u8(result.ch) ELSE 0)
    /\ inst_ptr' = inst_ptr + 1
    /\ Continues /\ UNCHANGED <<data_ptr, stdout>>

\* ',': read_char returns result
input(result) ==
    IF ~result.ok
    THEN Panics("read_char_failed")
    ELSE /\ data_cells' = SetCell(data_cells, data_ptr, as_u8(result.ch))
         /\ inst_ptr' = inst_ptr + 1
         /\ Continues /\ UNCHANGED <<data_ptr, stdout>>

\* jump that lands two past the matching bracket
jump_two_past ==
    IF curr_inst.jump_addr = None
    THEN /\ pc' = "panic"
         /\ fault' = [kind |-> "unwrap_none"]
         /\ UNCHANGED <<run_vars, stdout>>
    ELSE /\ inst_ptr' = unwrap(curr_inst.jump_addr) + 2
         /\ Continues /\ UNCHANGED <<data_ptr, data_cells, stdout>>

\* jump that lands on the matching bracket itself
jump_onto_bracket ==
    IF curr_inst.jump_addr = None
    THEN /\ pc' = "panic"
         /\ fault' = [kind |-> "unwrap_none"]
         /\ UNCHANGED <<run_vars, stdout>>
    ELSE /\ inst_ptr' = unwrap(curr_inst.jump_addr)
         /\ Continues /\ UNCHANGED <<data_ptr, data_cells, stdout>>

\* inst_ptr = curr_inst.jump_addr.unwrap() + 1
jump ==
    IF curr_inst.jump_addr = None
    THEN /\ pc' = "panic"
         /\ fault' = [kind |-> "unwrap_none"]
         /\ UNCHANGED <<run_vars, stdout>>
    ELSE /\ inst_ptr' = unwrap(curr_inst.jump_addr) + 1
         /\ Continues /\ UNCHANGED <<data_ptr, data_cells, stdout>>

advance ==
    /\ inst_ptr' = inst_ptr + 1
    /\ Continues /\ UNCHANGED <<data_ptr, data_cells, stdout>>

\* '['
loop_open == IF curr_cell = 0 THEN jump ELSE advance

\* ']'
loop_close == IF curr_cell # 0 THEN jump ELSE advance

\* the `_` arm
unknown_instruction ==
    /\ stdout' = Append(stdout, UnknownInstruction(curr_inst.line, curr_inst.opcode))
    /\ inst_ptr' = inst_ptr + 1
    /\ Continues /\ UNCHANGED <<data_ptr, data_cells>>

Step ==
    /\ pc = "run"
    /\ inst_ptr < Len(opcode_tokens)
    /\ CASE curr_inst.opcode = "<" -> move_left
         [] curr_inst.opcode = ">" -> move_right
         [] curr_inst.opcode = "+" -> increment
         [] curr_inst.opcode = "-" -> decrement
         [] curr_inst.opcode = "." -> output
         [] curr_inst.opcode = "," ->
                \E result \in ReadResults : input(result) /\ read_result' = result
         [] curr_inst.opcode = "[" -> loop_open
         [] curr_inst.opcode = "]" -> loop_close
         [] OTHER -> unknown_instruction
    /\ executed' = inst_ptr
    /\ IF curr_inst.opcode = "," THEN TRUE ELSE UNCHANGED read_result
    /\ UNCHANGED <<main_vars, tok_vars>>

\* the while condition fails: run_brainfuck and main return
Halt ==
    /\ pc = "run"
    /\ inst_ptr >= Len(opcode_tokens)
    /\ pc' = "done"
    /\ UNCHANGED <<main_vars, tok_vars, run_vars, stdout, fault, executed,
                   read_result>>

Next == TokenizeChar \/ NextLine \/ TokenizeReturn \/ Step \/ Halt

Spec == Init /\ [][Next]_vars

(***************************************************************************)
(* main from its first line: the arguments are counted, the file is read   *)
(* and tokenize_lines is entered.                                          *)
(***************************************************************************)
\* longest file text drawn when main reads the file
MaxFileLen == 2

InitMain ==
    /\ args \in ArgLists
    /\ strict = FALSE
    /\ pc = "main"
    /\ lines = << >>
    /\ line_num = 0
    /\ char_pos = 1
    /\ opcode_tokens = << >>
    /\ scope_open_addrs = << >>
    /\ inst_ptr = 0
    /\ data_ptr = 0
    /\ data_cells = ZeroCells
    /\ stdout = << >>
    /\ fault = NoFault
    /\ executed = -1
    /\ read_result = NoRead
    /\ first_call = NoCall

\* args.len() counts args[0]
args_len == Len(args) + 1

usage ==
    /\ pc' = "exit"
    /\ fault' = UsageExit
    /\ UNCHANGED <<lines, strict>>

\* read_file(filepath), then tokenize_lines is called on its lines
read_and_tokenize(filepath, is_strict) ==
    /\ strict' = is_strict
    /\ \/ /\ pc' = "panic"
          /\ fault' = ReadFileFailed
          /\ UNCHANGED lines
       \/ \E text \in Texts(MaxFileLen) :
             /\ lines' = read_file(text)
             /\ pc' = "tokenize"
             /\ UNCHANGED fault

Main ==
    /\ pc = "main"
    /\ IF args_len < 2 THEN usage
       ELSE IF args_len = 2 THEN read_and_tokenize(args[1], FALSE)
       ELSE IF args_len = 3 THEN read_and_tokenize(args[2], args[1] = "--strict")
       ELSE usage
    /\ UNCHANGED <<args, first_call, tok_vars, run_vars, stdout, executed, read_result>>

NextMain == Main \/ Next

SpecMain == InitMain /\ [][NextMain]_vars

(***************************************************************************)
(* tokenize_lines called a second time on the same lines, as a caller in   *)
(* one process would: the first result is kept, the locals are created     *)
(* anew.                                                                   *)
(***************************************************************************)
TokenizeAgain ==
    /\ first_call = NoCall
    /\ executed = -1
    /\ \/ pc = "run" /\ first_call' = Returned(opcode_tokens)
       \/ /\ pc = "panic"
          /\ fault.kind \in {"scope_not_opened", "assert_eq"}
          /\ first_call' = Panicked(fault)
    /\ pc' = "tokenize"
    /\ fault' = NoFault
    /\ line_num' = 0
    /\ char_pos' = 1
    /\ opcode_tokens' = tokenize_locals.opcode_tokens
    /\ scope_open_addrs' = tokenize_locals.scope_open_addrs
    /\ UNCHANGED <<lines, strict, args, run_vars, stdout, executed, read_result>>

NextTwice == TokenizeAgain \/ Next

SpecTwice == Init /\ [][NextTwice]_vars

(***************************************************************************)
(* Reference definitions for the properties: the source as the language    *)
(* defines it, computed from lines alone.                                  *)
(***************************************************************************)
CommentStart == {"#", "/", ";"}

Min(S) == CHOOSE x \in S : \A y \in S : x <= y
Max(S) == CHOOSE x \in S : \A y \in S : x >= y

\* the number of characters of a line in front of its comment
CodeLen(line) ==
    LET starts == {k \in 1..Len(line) : line[k] \in CommentStart}
    IN  IF starts = {} THEN Len(line) ELSE Min(starts) - 1

\* the opcode characters among the first k characters of line number n
RECURSIVE LineOps(_, _, _)
LineOps(line, n, k) ==
    IF k = 0 THEN << >>
    ELSE IF line[k] \in Opcodes
         THEN Append(LineOps(line, n, k - 1), [ch |-> line[k], line |-> n, col |-> k])
         ELSE LineOps(line, n, k - 1)

\* the opcode characters of the first n lines, each with its 1-based line and column
RECURSIVE SourceOpsTo(_, _)
SourceOpsTo(ls, n) ==
    IF n = 0 THEN << >>
    ELSE SourceOpsTo(ls, n - 1) \o LineOps(ls[n], n, CodeLen(ls[n]))

SourceOps == SourceOpsTo(lines, Len(lines))

\* bracket depth after the first k elements of a sequence of opcode characters
RECURSIVE Depth(_, _)
Depth(chs, k) ==
    IF k = 0 THEN 0
    ELSE Depth(chs, k - 1) + (IF chs[k] = "[" THEN 1 ELSE IF chs[k] = "]" THEN -1 ELSE 0)

Chars(ops) == [k \in 1..Len(ops) |-> ops[k].ch]
TokenChars == [k \in 1..Len(opcode_tokens) |-> opcode_tokens[k].opcode]

Balanced(chs) ==
    /\ \A k \in 0..Len(chs) : Depth(chs, k) >= 0
    /\ Depth(chs, Len(chs)) = 0

\* 1-based place of the first ']' that closes nothing, 0 if there is none
FirstUnmatchedClose(chs) ==
    LET bad == {k \in 1..Len(chs) : Depth(chs, k) < 0}
    IN  IF bad = {} THEN 0 ELSE Min(bad)

\* 0-based index of the ']' matching the '[' at 0-based index i, by depth counting
MatchingClose(chs, i) ==
    Min({j \in (i + 2)..Len(chs) :
            chs[j] = "]" /\ Depth(chs, j) = Depth(chs, i)}) - 1

\* 0-based index of the '[' matching the ']' at 0-based index j
MatchingOpen(chs, j) ==
    Max({i \in 1..j : chs[i] = "[" /\ Depth(chs, i - 1) = Depth(chs, j + 1)}) - 1

TokenizeFailed == pc = "panic" /\ fault.kind \in {"scope_not_opened", "assert_eq"}
Assembled == pc \in {"run", "done"} \/ (pc = "panic" /\ ~TokenizeFailed)

TokenAt(i) == opcode_tokens[i + 1]

(***************************************************************************)
(* C1: a source with balanced brackets never fails in tokenize_lines, and  *)
(* in the stream it returns every '[' at index i has jump_addr = Some(j)   *)
(* with j > i, the token at j is a ']' with jump_addr = Some(i), and every *)
(* ']' is the jump target of exactly one '['.                              *)
(***************************************************************************)
C1_MutualPairing ==
    /\ Balanced(Chars(SourceOps)) => ~TokenizeFailed
    /\ Assembled =>
         \A i \in 0..(Len(opcode_tokens) - 1) :
            /\ TokenAt(i).opcode = "[" =>
                 /\ TokenAt(i).jump_addr # None
                 /\ LET j == unwrap(TokenAt(i).jump_addr)
                    IN  /\ j > i
                        /\ j < Len(opcode_tokens)
                        /\ TokenAt(j).opcode = "]"
                        /\ TokenAt(j).jump_addr = Some(i)
            /\ TokenAt(i).opcode = "]" =>
                 Cardinality({k \in 0..(Len(opcode_tokens) - 1) :
                                /\ TokenAt(k).opcode = "["
                                /\ TokenAt(k).jump_addr = Some(i)}) = 1

\* an assembled stream with a loop nested in a loop
C1_Witness ==
    /\ Assembled
    /\ \E i \in 0..(Len(opcode_tokens) - 2) :
          /\ TokenAt(i).opcode = "["
          /\ TokenAt(i + 1).opcode = "["
          /\ TokenAt(i).jump_addr # None
          /\ unwrap(TokenAt(i).jump_addr) > unwrap(TokenAt(i + 1).jump_addr)

(***************************************************************************)
(* C2: when the source holds a ']' that closes nothing, tokenize_lines     *)
(* never returns a stream; it scans no further than the first such ']',    *)
(* and the panic that ends it carries the 1-based line of that ']',        *)
(* whatever follows it in the text.  No other source panics this way.      *)
(***************************************************************************)
C2_UnmatchedClose ==
    LET ops == SourceOps
        k == FirstUnmatchedClose(Chars(ops))
    IN  /\ fault.kind = "scope_not_opened" => k # 0
        /\ k # 0 =>
             /\ pc \in {"tokenize", "panic"}
             /\ Len(opcode_tokens) <= k - 1
             /\ executed = -1
             /\ \/ line_num + 1 < ops[k].line
                \/ line_num + 1 = ops[k].line /\ char_pos <= ops[k].col
             /\ pc = "panic" =>
                  /\ fault = Panic("scope_not_opened", ops[k].line)
                  /\ line_num + 1 = ops[k].line
                  /\ char_pos = ops[k].col
             /\ pc = "tokenize" => ENABLED (TokenizeChar \/ NextLine)

\* the panic on a second line, with further brackets behind the ']'
C2_Witness ==
    /\ pc = "panic"
    /\ fault = Panic("scope_not_opened", 2)
    /\ Len(SourceOps) > Len(opcode_tokens) + 1
    /\ SourceOps[Len(opcode_tokens) + 2].ch = "["

(***************************************************************************)
(* C3 (as claimed): the failure on a '[' left open at the end of the       *)
(* input names the line of the dangling '['.                               *)
(***************************************************************************)
C3_NamesDanglingLine ==
    (pc = "panic" /\ fault.kind = "assert_eq") =>
        /\ "line" \in DOMAIN fault
        /\ fault.line = TokenAt(scope_open_addrs[Len(scope_open_addrs)]).line

Running == pc = "run" /\ inst_ptr < Len(opcode_tokens)

BoundaryFaults ==
    {"data_pointer_underflow", "data_pointer_overflow",
     "data_cell_overflow", "data_cell_underflow"}

(***************************************************************************)
(* C4: in a run without --strict, '<' at cell 0 moves to the last cell,    *)
(* '>' at the last cell moves to cell 0, '+' on 255 gives 0 and '-' on 0   *)
(* gives 255, each going on to the next instruction; and no state of such  *)
(* a run holds a pointer or cell boundary fault.                           *)
(***************************************************************************)
C4_PermissiveWraps ==
    /\ [](~strict => fault.kind \notin BoundaryFaults)
    /\ [][(Running /\ ~strict /\ curr_inst.opcode \in {"<", ">", "+", "-"}) =>
            /\ pc' = "run" /\ fault' = NoFault /\ inst_ptr' = inst_ptr + 1
            /\ (curr_inst.opcode = "<" /\ data_ptr = 0) =>
                   (data_ptr' = data_len - 1 /\ data_cells' = data_cells)
            /\ (curr_inst.opcode = ">" /\ data_ptr = data_len - 1) =>
                   (data_ptr' = 0 /\ data_cells' = data_cells)
            /\ (curr_inst.opcode = "+" /\ curr_cell = 255) =>
                   (Cell(data_cells', data_ptr) = 0 /\ data_ptr' = data_ptr)
            /\ (curr_inst.opcode = "-" /\ curr_cell = 0) =>
                   (Cell(data_cells', data_ptr) = 255 /\ data_ptr' = data_ptr)
          ]_vars

\* a permissive run that ended on a '+' which left 0 in its cell
C4_Witness ==
    /\ pc = "done" /\ ~strict
    /\ executed >= 0
    /\ TokenAt(executed).opcode = "+"
    /\ Cell(data_cells, data_ptr) = 0

(***************************************************************************)
(* C5: in a run with --strict, '<' at cell 0, '>' at the last cell, '+' on *)
(* 255 and '-' on 0 each end the run in the matching panic, naming the     *)
(* instruction's line, with the data pointer, the tape, the instruction    *)
(* pointer and the output as they were; after a panic nothing changes.     *)
(***************************************************************************)
FaultsWith(kind) ==
    /\ pc' = "panic"
    /\ fault' = Panic(kind, curr_inst.line)
    /\ UNCHANGED <<inst_ptr, data_ptr, data_cells, stdout>>

C5_StrictFaults ==
    /\ [][(Running /\ strict) =>
            /\ (curr_inst.opcode = "<" /\ data_ptr = 0) =>
                   FaultsWith("data_pointer_underflow")
            /\ (curr_inst.opcode = ">" /\ data_ptr = data_len - 1) =>
                   FaultsWith("data_pointer_overflow")
            /\ (curr_inst.opcode = "+" /\ curr_cell = 255) =>
                   FaultsWith("data_cell_overflow")
            /\ (curr_inst.opcode = "-" /\ curr_cell = 0) =>
                   FaultsWith("data_cell_underflow")
          ]_vars
    /\ [][pc = "panic" => UNCHANGED vars]_vars

\* a strict run stopped by '>' at the last cell
C5_Witness ==
    /\ pc = "panic" /\ strict
    /\ fault.kind = "data_pointer_overflow"
    /\ data_ptr = data_len - 1
    /\ TokenAt(inst_ptr).opcode = ">"

(***************************************************************************)
(* C6: in every state the data pointer is an index of the tape and every   *)
(* cell holds a value in 0..255; when run_brainfuck is entered the data    *)
(* pointer is 0 and every cell is 0.                                       *)
(***************************************************************************)
AllZero(cells) == \A i \in DOMAIN cells : cells[i] = 0

C6_TapeInBounds ==
    /\ data_ptr \in 0..(data_len - 1)
    /\ \A i \in DOMAIN data_cells :
          i \in 0..(data_len - 1) /\ data_cells[i] \in 0..255
    /\ (pc = "run" /\ executed = -1) =>
          (data_ptr = 0 /\ inst_ptr = 0 /\ AllZero(data_cells))

\* a run that ended on the last cell, holding 255
C6_Witness ==
    /\ pc = "done"
    /\ data_ptr = data_len - 1
    /\ Cell(data_cells, data_ptr) = 255

(***************************************************************************)
(* C7: '[' at index i sets inst_ptr to the index of its matching ']' plus  *)
(* one when the current cell is 0 and to i + 1 otherwise; ']' at index j   *)
(* sets inst_ptr to the index of its matching '[' plus one when the cell   *)
(* is not 0 and to j + 1 otherwise; neither changes the data pointer or a  *)
(* cell.  The matching bracket is found by depth counting.                 *)
(***************************************************************************)
C7_LoopJumps ==
    [][(Running /\ curr_inst.opcode \in {"[", "]"}) =>
          /\ inst_ptr' =
                IF curr_inst.opcode = "["
                THEN IF curr_cell = 0
                     THEN MatchingClose(TokenChars, inst_ptr) + 1
                     ELSE inst_ptr + 1
                ELSE IF curr_cell # 0
                     THEN MatchingOpen(TokenChars, inst_ptr) + 1
                     ELSE inst_ptr + 1
          /\ inst_ptr' \in 1..Len(opcode_tokens)
          /\ pc' = "run"
          /\ UNCHANGED <<data_ptr, data_cells, stdout>>
      ]_vars

\* a ']' of an inner loop has just jumped back
C7_Witness ==
    /\ pc = "run"
    /\ executed > 1
    /\ TokenAt(executed).opcode = "]"
    /\ inst_ptr = MatchingOpen(TokenChars, executed) + 1
    /\ inst_ptr <= executed
    /\ Depth(TokenChars, inst_ptr) = 2

(***************************************************************************)
(* C8 (as claimed): '.' appends exactly one byte, equal to the current     *)
(* cell's value, to standard output, leaves the tape and the data pointer  *)
(* unchanged and advances inst_ptr by one.                                 *)
(***************************************************************************)
C8_OneRawByte ==
    [][(Running /\ curr_inst.opcode = ".") =>
          /\ stdout' = Append(stdout, OutByte(curr_cell))
          /\ inst_ptr' = inst_ptr + 1
          /\ UNCHANGED <<data_ptr, data_cells>>
      ]_vars

(***************************************************************************)
(* C9: ',' acts on what read_char returns, with or without --strict.  On   *)
(* Ok it stores the value read (its low eight bits: the byte itself for a  *)
(* value up to 255) in the current cell, changes no other cell, and goes   *)
(* on to the next instruction; on Err the run ends in the read panic       *)
(* naming the instruction's line, with tape, pointers and output as they   *)
(* were, and nothing changes afterwards.  The source `,.` reading 65       *)
(* writes the byte 65 and ends normally.                                   *)
(***************************************************************************)
OtherCellsKept ==
    \A i \in (DOMAIN data_cells \cup DOMAIN data_cells') \ {data_ptr} :
        Cell(data_cells', i) = Cell(data_cells, i)

EchoText == <<",", ".">>

C9_Input ==
    /\ [][(Running /\ curr_inst.opcode = ",") =>
            IF read_result'.ok
            THEN /\ Cell(data_cells', data_ptr) = read_result'.ch % 256
                 /\ read_result'.ch <= 255 =>
                        Cell(data_cells', data_ptr) = read_result'.ch
                 /\ OtherCellsKept
                 /\ inst_ptr' = inst_ptr + 1
                 /\ pc' = "run" /\ fault' = NoFault
                 /\ UNCHANGED <<data_ptr, stdout>>
            ELSE /\ pc' = "panic"
                 /\ fault' = Panic("read_char_failed", curr_inst.line)
                 /\ UNCHANGED <<inst_ptr, data_ptr, data_cells, stdout>>
          ]_vars
    /\ [][pc = "panic" => pc' = "panic" /\ UNCHANGED <<run_vars, stdout, fault>>]_vars
    /\ []((lines = <<EchoText>> /\ read_result = Ok(65) /\ pc \in {"done", "panic"}) =>
             (pc = "done" /\ stdout = <<OutByte(65)>>))

\* the source `,.` has read 65 under --strict, echoed it and ended
C9_Witness ==
    /\ lines = <<EchoText>>
    /\ strict
    /\ pc = "done"
    /\ read_result = Ok(65)
    /\ stdout = <<OutByte(65)>>

(***************************************************************************)
(* C10: the stream tokenize_lines returns holds, in order, exactly the     *)
(* opcode characters that stand in front of the first '#', '/' or ';' of   *)
(* their line, each with its line number; characters behind a comment      *)
(* start are not emitted and do not count for bracket pairing (whether     *)
(* assembly fails depends on the characters in front of the comments       *)
(* alone), and the next line is scanned again.  The line                   *)
(* `+++ # this is ignored +++` gives exactly three '+' tokens.             *)
(***************************************************************************)
IsPrefix(a, b) == Len(a) <= Len(b) /\ a = SubSeq(b, 1, Len(a))

C10_CommentsLineScoped ==
    /\ IsPrefix(TokenChars, Chars(SourceOps))
    /\ Assembled =>
         /\ TokenChars = Chars(SourceOps)
         /\ \A k \in 1..Len(opcode_tokens) : opcode_tokens[k].line = SourceOps[k].line
    /\ pc # "tokenize" => (TokenizeFailed <=> ~Balanced(Chars(SourceOps)))
    /\ (lines = <<CommentText>> /\ pc # "tokenize") =>
         (Assembled /\ TokenChars = <<"+", "+", "+">>)

\* a source with brackets behind ';' and '/' has been assembled and run
C10_Witness ==
    /\ lines = read_file(CommentBracketText)
    /\ pc = "done"
    /\ Len(opcode_tokens) = 3

(***************************************************************************)
(* C11 (as claimed): the warnings for unrecognized characters go to a      *)
(* diagnostic stream, so tokenize_lines writes nothing to standard output: *)
(* until the first instruction is executed standard output is empty.       *)
(***************************************************************************)
C11_AssemblyWritesNoStdout ==
    executed = -1 => stdout = << >>

(***************************************************************************)
(* C13: tokenize_lines has returned before anything is executed, and a     *)
(* source whose brackets (in front of the comments) are unbalanced never   *)
(* executes: no instruction is executed, the tape stays zero, read_char is *)
(* never called and no byte is written by a '.', also when '+' or '.'      *)
(* tokens were emitted before the offending bracket.                       *)
(***************************************************************************)
NothingExecuted ==
    /\ executed = -1
    /\ inst_ptr = 0 /\ data_ptr = 0 /\ AllZero(data_cells)
    /\ read_result = NoRead
    /\ \A k \in 1..Len(stdout) : "byte" \notin DOMAIN stdout[k]

C13_NoExecutionBeforeAssembly ==
    /\ pc = "tokenize" => NothingExecuted
    /\ ~Balanced(Chars(SourceOps)) => (pc \in {"tokenize", "panic"} /\ NothingExecuted)
    /\ TokenizeFailed => NothingExecuted

\* assembly failed on a bracket although '+' and '.' tokens were already emitted
C13_Witness ==
    /\ TokenizeFailed
    /\ \E k \in 1..Len(opcode_tokens) : opcode_tokens[k].opcode = "+"
    /\ \E k \in 1..Len(opcode_tokens) : opcode_tokens[k].opcode = "."

(***************************************************************************)
(* C14: inst_ptr stays in 0..len through every run of a stream that        *)
(* tokenize_lines returned; the run ends normally exactly when             *)
(* inst_ptr >= len (then only the return is possible, before that only a   *)
(* step), and a run of the empty stream returns at once, having executed   *)
(* nothing, with the tape zero and nothing written.                        *)
(***************************************************************************)
C14_InstPtrInRange ==
    /\ [](inst_ptr \in 0..Len(opcode_tokens))
    /\ [](pc = "done" => (inst_ptr >= Len(opcode_tokens) /\ fault = NoFault))
    /\ []((pc = "run" /\ inst_ptr >= Len(opcode_tokens)) =>
             (ENABLED Halt /\ ~ENABLED Step))
    /\ []((pc = "run" /\ inst_ptr < Len(opcode_tokens)) => ~ENABLED Halt)
    /\ [][(pc = "run" /\ Len(opcode_tokens) = 0) =>
             /\ pc' = "done"
             /\ executed = -1 /\ AllZero(data_cells)
             /\ UNCHANGED <<run_vars, stdout, fault, executed, read_result>>
         ]_vars

\* a '[' on a zero cell has jumped exactly to len
C14_Witness ==
    /\ pc = "run"
    /\ executed >= 0
    /\ TokenAt(executed).opcode = "["
    /\ inst_ptr > executed + 1
    /\ inst_ptr = Len(opcode_tokens)

(***************************************************************************)
(* C15: a step of '+', '-' or ',' changes no cell but the one under the    *)
(* data pointer and leaves the data pointer; a step of '<', '>', '.', '['  *)
(* or ']' leaves every cell; and once tokenize_lines has returned the      *)
(* instruction stream never changes.                                       *)
(***************************************************************************)
C15_FrameOfTheTape ==
    /\ [][Running =>
            /\ curr_inst.opcode \in {"+", "-", ","} =>
                  (OtherCellsKept /\ data_ptr' = data_ptr)
            /\ curr_inst.opcode \in {"<", ">", ".", "[", "]"} =>
                  data_cells' = data_cells
          ]_vars
    /\ [][pc # "tokenize" => opcode_tokens' = opcode_tokens]_vars

\* a '.' has written a non-zero cell, which still holds its value
C15_Witness ==
    /\ pc = "run"
    /\ executed >= 0
    /\ TokenAt(executed).opcode = "."
    /\ curr_cell # 0
    /\ stdout # << >>

(***************************************************************************)
(* C17: in every stream tokenize_lines returns, the jump_addr of each '['  *)
(* is the index of the first later ']' at which the bracket depth is back  *)
(* to the depth in front of that '[', and the tokens strictly between the  *)
(* two are balanced, wherever the line breaks fall.                        *)
(***************************************************************************)
C17_NestedPairing ==
    Assembled =>
        \A i \in 0..(Len(opcode_tokens) - 1) :
            TokenAt(i).opcode = "[" =>
                /\ TokenAt(i).jump_addr = Some(MatchingClose(TokenChars, i))
                /\ Balanced(SubSeq(TokenChars, i + 2, unwrap(TokenAt(i).jump_addr)))

\* a loop that spans three lines and holds two loops has been assembled
C17_Witness ==
    /\ Assembled
    /\ lines = read_file(NestedLinesText)
    /\ TokenAt(0).jump_addr = Some(5)
    /\ TokenAt(0).line = 1 /\ TokenAt(5).line = 3

(***************************************************************************)
(* C18: while a stream returned by tokenize_lines runs, the token to       *)
(* execute always has one of the eight opcodes, and a '[' or ']' always    *)
(* has a jump_addr: the "unknown instruction" arm is never taken and       *)
(* unwrap never fails.                                                     *)
(***************************************************************************)
C18_DefensivePathsDead ==
    /\ Running =>
         /\ curr_inst.opcode \in Opcodes
         /\ curr_inst.opcode \in {"[", "]"} => curr_inst.jump_addr # None
    /\ fault.kind # "unwrap_none"
    /\ \A k \in 1..Len(stdout) :
          "warning" \in DOMAIN stdout[k] => stdout[k].warning # "Unknown instruction"

\* a run that took both jumps of a loop has ended
C18_Witness ==
    /\ pc = "done"
    /\ executed >= 1
    /\ TokenAt(executed).opcode = "]"
    /\ TokenAt(executed).jump_addr # None
    /\ unwrap(TokenAt(executed).jump_addr) < executed - 1

(***************************************************************************)
(* C20: a stream without '[' and ']' is executed token by token, each      *)
(* exactly once and in order: every step executes the token at inst_ptr    *)
(* and either moves inst_ptr on by one or ends the run in a panic, so      *)
(* after n steps of n tokens the run returns with inst_ptr = n.  A run     *)
(* that is not over can always take its next step.  The only panics are a  *)
(* boundary fault under --strict and a failed read; without --strict and   *)
(* with reads that succeed the run always returns.                         *)
(***************************************************************************)
NoBrackets ==
    \A k \in 1..Len(opcode_tokens) : opcode_tokens[k].opcode \notin {"[", "]"}

C20_StraightLineSafety ==
    /\ []((Assembled /\ NoBrackets) =>
            /\ pc \in {"run", "done"} => executed = inst_ptr - 1
            /\ pc = "done" => inst_ptr = Len(opcode_tokens)
            /\ pc = "run" => ENABLED Next
            /\ pc = "panic" =>
                  /\ executed = inst_ptr
                  /\ \/ strict /\ fault.kind \in BoundaryFaults
                     \/ fault.kind = "read_char_failed" /\ ~read_result.ok)
    /\ [][(Running /\ NoBrackets) =>
            /\ executed' = inst_ptr
            /\ \/ pc' = "run" /\ inst_ptr' = inst_ptr + 1
               \/ pc' = "panic" /\ inst_ptr' = inst_ptr
         ]_vars

(***************************************************************************)
(* The program under the scheduling it has: a single thread that takes its *)
(* next step whenever there is one.                                        *)
(***************************************************************************)
FairSpec == Spec /\ WF_vars(Next)

\* C20: the steps of a stream without brackets are as above, and its run
\* always comes to an end, by returning or by a panic.
C20_StraightLineTerminates ==
    /\ C20_StraightLineSafety
    /\ (Assembled /\ NoBrackets) ~> (pc \in {"done", "panic"})

\* a permissive run of three tokens without brackets has returned after the third
C20_Witness ==
    /\ pc = "done" /\ ~strict
    /\ NoBrackets
    /\ Len(opcode_tokens) = 3
    /\ executed = 2
    /\ read_result.ok

(***************************************************************************)
(* C19: --strict is one flag for the whole run, and away from the four     *)
(* boundary conditions a step does not depend on it: in both modes the     *)
(* step from a state is the one function StepWithoutFlag of that state and *)
(* of what read_char returned, and a failed read panics in both modes.  At *)
(* a boundary condition the strict run panics and changes nothing.  So a   *)
(* strict and a permissive run of one stream on the same inputs go through *)
(* the same inst_ptr, data pointer, tape and output up to the first        *)
(* boundary condition; a strict run without a boundary fault ends as the   *)
(* permissive one does, and a strict run that faults has written a prefix  *)
(* of the permissive run's output.                                         *)
(***************************************************************************)
AtBoundary ==
    \/ curr_inst.opcode = "<" /\ data_ptr = 0
    \/ curr_inst.opcode = ">" /\ data_ptr = data_len - 1
    \/ curr_inst.opcode = "+" /\ curr_cell = 255
    \/ curr_inst.opcode = "-" /\ curr_cell = 0

StepWithoutFlag(result) ==
    LET op == curr_inst.opcode
        c  == curr_cell
    IN  [inst_ptr |->
            IF op = "[" /\ c = 0 THEN MatchingClose(TokenChars, inst_ptr) + 1
            ELSE IF op = "]" /\ c # 0 THEN MatchingOpen(TokenChars, inst_ptr) + 1
            ELSE inst_ptr + 1,
         data_ptr |->
            IF op = "<" THEN (data_ptr - 1) % data_len
            ELSE IF op = ">" THEN (data_ptr + 1) % data_len
            ELSE data_ptr,
         cell |->
            IF op = "+" THEN (c + 1) % 256
            ELSE IF op = "-" THEN (c - 1) % 256
            ELSE IF op = "," THEN result.ch % 256
            ELSE c,
         written |->
            IF op # "." THEN << >>
            ELSE IF c < 128 THEN <<OutByte(c)>>
            ELSE <<OutByte(192 + (c \div 64)), OutByte(128 + (c % 64))>>]

C19_StrictAgreesWithPermissive ==
    /\ [][strict' = strict]_vars
    /\ [][Running =>
            IF curr_inst.opcode = "," /\ ~read_result'.ok
            THEN /\ pc' = "panic"
                 /\ fault'.kind = "read_char_failed"
                 /\ UNCHANGED <<run_vars, stdout>>
            ELSE IF strict /\ AtBoundary
            THEN /\ pc' = "panic"
                 /\ fault'.kind \in BoundaryFaults
                 /\ UNCHANGED <<run_vars, stdout>>
            ELSE LET n == StepWithoutFlag(read_result')
                 IN  /\ pc' = "run" /\ fault' = NoFault
                     /\ inst_ptr' = n.inst_ptr
                     /\ data_ptr' = n.data_ptr
                     /\ Cell(data_cells', data_ptr) = n.cell
                     /\ OtherCellsKept
                     /\ stdout' = stdout \o n.written
         ]_vars

\* a strict run stopped by a boundary fault after it had written output
C19_Witness ==
    /\ pc = "panic" /\ strict
    /\ fault.kind \in BoundaryFaults
    /\ executed >= 1
    /\ \E k \in 1..Len(stdout) : "byte" \in DOMAIN stdout[k]

(***************************************************************************)
(* C12: a second call of tokenize_lines on the same lines gives what the   *)
(* first gave: the same stream (opcodes, jump addresses, lines, length),   *)
(* or the same panic; the lines themselves are left as they were.          *)
(***************************************************************************)
C12_SameResultTwice ==
    /\ [][lines' = lines]_vars
    /\ []((first_call # NoCall /\ pc # "tokenize") =>
            IF first_call.ok
            THEN Assembled /\ opcode_tokens = first_call.tokens
            ELSE TokenizeFailed /\ fault = first_call.fault)

\* the second call has returned a stream with a loop in it
C12_Witness ==
    /\ first_call.ok
    /\ pc = "run" /\ executed = -1
    /\ Len(opcode_tokens) >= 3
    /\ TokenAt(0).opcode = "["
    /\ TokenAt(0).jump_addr = Some(2)

(***************************************************************************)
(* C16 (as claimed): only `<filepath>` and `--strict <filepath>` are       *)
(* accepted, strict mode is on exactly for the second, and every other     *)
(* command line ends in the usage exit with a non-zero status and without  *)
(* any assembly or execution.                                              *)
(***************************************************************************)
C16_UsageErrors ==
    pc # "main" =>
        IF Len(args) = 1 \/ (Len(args) = 2 /\ args[1] = "--strict")
        THEN pc # "exit" /\ strict = (Len(args) = 2)
        ELSE /\ pc = "exit"
             /\ fault = UsageExit
             /\ lines = << >> /\ opcode_tokens = << >>
             /\ NothingExecuted

====
